---- MODULE Spec2Model ----
(***************************************************************************)
(* State-machine model of controller_plugin_speed_controller::Plugin       *)
(* (src/src/speed_controller_plugin.cpp and its header).  One action per   *)
(* public operation of the plugin; the regulator handles of the external   *)
(* pid_controller library are modelled by their contract (integrator       *)
(* memory, settings, computeControl, resetController).                     *)
(***************************************************************************)
EXTENDS Integers, Sequences, FiniteSets, TLC

(***************************************************************************)
(* Bounds of the model                                                     *)
(***************************************************************************)
\* largest magnitude of a scalar the environment delivers (positions,
\* velocities, yaw rates, parameter values)
MaxVal == 1
\* saturation of a regulator's integrator memory
MaxMem == 1
\* largest number of parameters delivered in one parametersCallback call
MaxBatch == 1

(***************************************************************************)
(* as2_msgs::msg::ControlMode enumerations                                 *)
(***************************************************************************)
UNSET == "UNSET"
HOVER == "HOVER"
POSITION == "POSITION"
SPEED == "SPEED"
SPEED_IN_A_PLANE == "SPEED_IN_A_PLANE"
ATTITUDE == "ATTITUDE"
ACRO == "ACRO"
TRAJECTORY == "TRAJECTORY"
ControlModes == {UNSET, HOVER, POSITION, SPEED, SPEED_IN_A_PLANE, ATTITUDE, ACRO, TRAJECTORY}

NONE == "NONE"
YAW_ANGLE == "YAW_ANGLE"
YAW_SPEED == "YAW_SPEED"
YawModes == {NONE, YAW_ANGLE, YAW_SPEED}

UNDEFINED_FRAME == "UNDEFINED_FRAME"
LOCAL_ENU_FRAME == "LOCAL_ENU_FRAME"
BODY_FLU_FRAME == "BODY_FLU_FRAME"
GLOBAL_LAT_LONG_ASML == "GLOBAL_LAT_LONG_ASML"
ReferenceFrames == {UNDEFINED_FRAME, LOCAL_ENU_FRAME, BODY_FLU_FRAME, GLOBAL_LAT_LONG_ASML}

\* a default-constructed as2_msgs::msg::ControlMode message
ControlMode0 == [control_mode |-> UNSET, yaw_mode |-> NONE, reference_frame |-> UNDEFINED_FRAME]

(***************************************************************************)
(* Values: scalars, Eigen::Vector3d, orientations                          *)
(***************************************************************************)
Val == 0..MaxVal
Zero3 == <<0, 0, 0>>
Vec3(S) == {<<a, b, c>> : a \in S, b \in S, c \in S}
Sub3(a, b) == <<a[1] - b[1], a[2] - b[2], a[3] - b[3]>>
Add3(a, b) == <<a[1] + b[1], a[2] + b[2], a[3] + b[3]>>

\* Angles are counted in quarter turns; (-pi, pi] is -1..2.
WrapAngle(a) == ((a + 1) % 4) - 1
\* An orientation is a rotation about the vertical axis by k quarter turns,
\* k in 0..3; its yaw is the angle wrapped into (-pi, pi].
Orientations == 0..3
getYawFromQuaternion(q) == WrapAngle(q)
\* shortest signed angular distance from a2 to a1
angleMinError(a1, a2) == WrapAngle(a1 - a2)

(***************************************************************************)
(* Frame identifiers                                                       *)
(***************************************************************************)
Namespace == "drone0"
generateTfName(ns, frame) == <<ns, frame>>
odom == "odom"
base_link == "base_link"
enu_frame_id_ == generateTfName(Namespace, odom)
flu_frame_id_ == generateTfName(Namespace, base_link)

(***************************************************************************)
(* Parameter names.  A name is the sequence of its dot-separated tokens:   *)
(* "position_control.kp.x" is <<"position_control", "kp", "x">>.           *)
(***************************************************************************)
Leaves3D == {<<"reset_integral">>, <<"antiwindup_cte">>, <<"alpha">>,
             <<"kp", "x">>, <<"kp", "y">>, <<"kp", "z">>,
             <<"ki", "x">>, <<"ki", "y">>, <<"ki", "z">>,
             <<"kd", "x">>, <<"kd", "y">>, <<"kd", "z">>}
Leaves1D == {<<"reset_integral">>, <<"antiwindup_cte">>, <<"alpha">>,
             <<"kp">>, <<"ki">>, <<"kd">>}
LeavesSpeedInAPlane == {<<"reset_integral">>, <<"antiwindup_cte">>, <<"alpha">>,
             <<"height", "kp">>, <<"height", "ki">>, <<"height", "kd">>,
             <<"speed", "kp", "x">>, <<"speed", "kp", "y">>,
             <<"speed", "ki", "x">>, <<"speed", "ki", "y">>,
             <<"speed", "kd", "x">>, <<"speed", "kd", "y">>}

plugin_parameters_list_ == {<<"proportional_limitation">>}
position_control_parameters_list_ == {<<"position_control">> \o l : l \in Leaves3D}
velocity_control_parameters_list_ == {<<"speed_control">> \o l : l \in Leaves3D}
trajectory_control_parameters_list_ == {<<"trajectory_control">> \o l : l \in Leaves3D}
yaw_control_parameters_list_ == {<<"yaw_control">> \o l : l \in Leaves1D}
speed_in_a_plane_control_parameters_list_ ==
    {<<"speed_in_a_plane_control">> \o l : l \in LeavesSpeedInAPlane}

\* the parameter groups, named by their readiness flag
Groups == {"plugin_parameters_read", "position_controller_parameters_read",
           "velocity_controller_parameters_read",
           "speed_in_a_plane_controller_parameters_read",
           "trajectory_controller_parameters_read", "yaw_controller_parameters_read"}

\* the expected parameter-name set of each group
ParametersList(g) ==
    CASE g = "plugin_parameters_read" -> plugin_parameters_list_
      [] g = "position_controller_parameters_read" -> position_control_parameters_list_
      [] g = "velocity_controller_parameters_read" -> velocity_control_parameters_list_
      [] g = "speed_in_a_plane_controller_parameters_read" ->
             speed_in_a_plane_control_parameters_list_
      [] g = "trajectory_controller_parameters_read" -> trajectory_control_parameters_list_
      [] g = "yaw_controller_parameters_read" -> yaw_control_parameters_list_

\* param_name.substr(0, param_name.find(".")): the text before the first dot,
\* the whole name when it has no dot
ControllerOf(param_name) == Head(param_name)
\* param_name.substr(param_name.find(".") + 1): the text after the first dot,
\* the whole name when it has no dot (npos + 1 wraps to 0)
SubnameOf(param_name) == IF Len(param_name) = 1 THEN param_name ELSE Tail(param_name)

(***************************************************************************)
(* Regulator handles (pid_controller::PIDController, PIDController3D).     *)
(* A handle is its internal memory (integrator and derivative filter,      *)
(* 0 when cleared) and its settings.                                       *)
(***************************************************************************)
pid_yaw_handler_ == "pid_yaw_handler_"
pid_3D_position_handler_ == "pid_3D_position_handler_"
pid_3D_velocity_handler_ == "pid_3D_velocity_handler_"
pid_1D_speed_in_a_plane_handler_ == "pid_1D_speed_in_a_plane_handler_"
pid_3D_speed_in_a_plane_handler_ == "pid_3D_speed_in_a_plane_handler_"
pid_3D_trajectory_handler_ == "pid_3D_trajectory_handler_"
Handlers == {pid_yaw_handler_, pid_3D_position_handler_, pid_3D_velocity_handler_,
             pid_1D_speed_in_a_plane_handler_, pid_3D_speed_in_a_plane_handler_,
             pid_3D_trajectory_handler_}

\* a freshly constructed PIDController
PIDController ==
    [mem |-> 0,
     cfg |-> [ResetIntegralSaturationFlag |-> FALSE, AntiWindup |-> 0, Alpha |-> 0,
              Kp |-> 0, Ki |-> 0, Kd |-> 0]]
\* a freshly constructed PIDController3D
PIDController3D ==
    [mem |-> 0,
     cfg |-> [ResetIntegralSaturationFlag |-> FALSE, AntiWindup |-> 0, Alpha |-> 0,
              KpX |-> 0, KpY |-> 0, KpZ |-> 0, KiX |-> 0, KiY |-> 0, KiZ |-> 0,
              KdX |-> 0, KdY |-> 0, KdZ |-> 0, OutputSaturation |-> Zero3]]

\* a parameter value carries a type; get_value<bool>() and get_value<double>()
\* read it as the type the setter takes
ParameterBool(b) == [bool_value |-> b, double_value |-> 0]
ParameterDouble(d) == [bool_value |-> FALSE, double_value |-> d]
get_value(setter, value) ==
    IF setter = "ResetIntegralSaturationFlag" THEN value.bool_value ELSE value.double_value

\* handle->set<setter>(value)
PidSet(h, setter, value) == [h EXCEPT !.cfg = [@ EXCEPT ![setter] = value]]
\* handle->set<setter>(_param.get_value<...>())
PidSetParameter(h, setter, value) == PidSet(h, setter, get_value(setter, value))
\* handle->resetController(): clears the internal memory, keeps the settings
resetController(h) == [h EXCEPT !.mem = 0]
\* the memory after one more computeControl over a time step dt
Accumulate(h, dt) == [h EXCEPT !.mem = IF @ + dt > MaxMem THEN MaxMem ELSE @ + dt]
\* PIDController::computeControl(dt, error): the control effort, a function of
\* the memory and the error
computeControlError(h, dt, error) == [out |-> error + h.mem, pid |-> Accumulate(h, dt)]
\* PIDController::computeControl(dt, state, reference)
computeControl1D(h, dt, state, reference) == computeControlError(h, dt, reference - state)
\* PIDController3D::computeControl(dt, state, reference)
computeControl3D(h, dt, state, reference) ==
    [out |-> Add3(Sub3(reference, state), <<h.mem, h.mem, h.mem>>), pid |-> Accumulate(h, dt)]
\* PIDController3D::computeControl(dt, pos, pos_ref, vel, vel_ref)
computeControlTrajectory(h, dt, pos, pos_ref, vel, vel_ref) ==
    [out |-> Add3(Add3(Sub3(pos_ref, pos), Sub3(vel_ref, vel)), <<h.mem, h.mem, h.mem>>),
     pid |-> Accumulate(h, dt)]

(***************************************************************************)
(* State of the plugin                                                     *)
(***************************************************************************)
\* struct UAV_state, default-constructed
UAV_state == [position |-> Zero3, velocity |-> Zero3, yaw |-> Zero3]
\* struct UAV_command, default-constructed
UAV_command == [velocity |-> Zero3, yaw_speed |-> 0]
\* the fields of struct Control_flags
FlagNames == {"state_received", "ref_received"} \cup Groups
\* the geometry_msgs::msg::TwistStamped a caller hands to computeOutput, not filled in
TwistStamped == [frame_id |-> <<"", "">>, linear |-> Zero3, angular |-> Zero3]
\* the fields of ReferenceState that a regulator chain reads
RefFields == {"position", "velocity", "yaw_angle", "yaw_rate"}
\* the value of fresh in a specification that does not follow the reference fields
Untracked == {"untracked"}

VARIABLES
    flags_,                   \* Control_flags
    parameters_to_read_,      \* group -> names still to be read
    control_mode_in_,         \* as2_msgs::msg::ControlMode
    control_mode_out_,        \* as2_msgs::msg::ControlMode
    input_pose_frame_id_,
    input_twist_frame_id_,
    output_twist_frame_id_,
    uav_state_,               \* UAV_state
    control_ref_,             \* UAV_state
    control_command_,         \* UAV_command
    speed_limits_,
    use_bypass_,
    proportional_limitation_,
    pid,                      \* handler name -> regulator handle
    twist_msg,                \* the twist message handed to the last computeOutput, as the call left it
    ret,                      \* what computeOutput returned, "none" after any other operation
    invoked,                  \* handlers whose computeControl ran in the last operation
    observed,                 \* parameter names delivered so far
    fresh,                    \* reference fields written since the active mode pair last changed
    handshake                 \* what has happened since the last setMode to a mode other than HOVER

vars == <<flags_, parameters_to_read_, control_mode_in_, control_mode_out_,
          input_pose_frame_id_, input_twist_frame_id_, output_twist_frame_id_,
          uav_state_, control_ref_, control_command_, speed_limits_, use_bypass_,
          proportional_limitation_, pid, twist_msg, ret, invoked, observed, fresh,
          handshake>>

\* the variables that hold the plugin's own data
mode_vars == <<control_mode_in_, control_mode_out_, input_pose_frame_id_,
               input_twist_frame_id_, output_twist_frame_id_>>
param_vars == <<parameters_to_read_, use_bypass_, proportional_limitation_, observed>>

\* fresh after the fields in fields have been written
Written(fields) == IF fresh = Untracked THEN fresh ELSE fresh \cup fields

(***************************************************************************)
(* Construction and ownInitialize()                                        *)
(***************************************************************************)
\* the regulator handles ownInitialize() constructs
InitialHandlers ==
    [h \in Handlers |->
        IF h \in {pid_yaw_handler_, pid_1D_speed_in_a_plane_handler_}
        THEN PIDController ELSE PIDController3D]

\* the *_parameters_to_read_ members as declared
InitialParametersToRead ==
    [g \in Groups |->
        IF g = "speed_in_a_plane_controller_parameters_read"
        THEN speed_in_a_plane_control_parameters_list_ ELSE {}]

\* flags_ is never initialized: every field holds an indeterminate value
\* until something assigns it.  use_bypass_ likewise.
Init ==
    /\ flags_ \in [FlagNames -> BOOLEAN]
    /\ parameters_to_read_ = InitialParametersToRead
    /\ control_mode_in_ = ControlMode0
    /\ control_mode_out_ = ControlMode0
    /\ input_pose_frame_id_ = generateTfName(Namespace, odom)
    /\ input_twist_frame_id_ = generateTfName(Namespace, odom)
    /\ output_twist_frame_id_ = generateTfName(Namespace, odom)
    /\ uav_state_ = UAV_state
    /\ control_ref_ = UAV_state
    /\ control_command_ = UAV_command
    /\ speed_limits_ = Zero3
    /\ use_bypass_ \in BOOLEAN
    /\ proportional_limitation_ = FALSE
    /\ pid = InitialHandlers
    /\ twist_msg = TwistStamped
    /\ ret = "none"
    /\ invoked = {}
    /\ observed = {}
    /\ fresh \in {RefFields, Untracked}
    /\ handshake = [switched |-> FALSE, state |-> FALSE, ref |-> FALSE]

(***************************************************************************)
(* reset()                                                                 *)
(***************************************************************************)
\* control_ref_ after resetReferences()
resetReferences(ref, state) ==
    [ref EXCEPT !.position = state.position, !.velocity = Zero3, !.yaw = state.yaw]
\* uav_state_ after resetState()
resetState == UAV_state
\* control_command_ after resetCommands()
resetCommands(cmd) == [cmd EXCEPT !.velocity = Zero3, !.yaw_speed = 0]
\* the handles reset() clears
ResetHandlers == {pid_yaw_handler_, pid_3D_position_handler_, pid_3D_velocity_handler_,
                  pid_3D_trajectory_handler_}

\* a reset() that also forgets that a state and a reference were received
resetForgetsReceived ==
    /\ control_ref_' = resetReferences(control_ref_, uav_state_)
    /\ uav_state_' = resetState
    /\ control_command_' = resetCommands(control_command_)
    /\ pid' = [h \in Handlers |-> IF h \in ResetHandlers THEN resetController(pid[h]) ELSE pid[h]]
    /\ flags_' = [flags_ EXCEPT !.state_received = FALSE, !.ref_received = FALSE]
    /\ ret' = "none"
    /\ twist_msg' = TwistStamped
    /\ invoked' = {}
    /\ fresh' = Written(RefFields)
    /\ UNCHANGED <<mode_vars, param_vars, speed_limits_, handshake>>

reset ==
    /\ control_ref_' = resetReferences(control_ref_, uav_state_)
    /\ uav_state_' = resetState
    /\ control_command_' = resetCommands(control_command_)
    /\ pid' = [h \in Handlers |-> IF h \in ResetHandlers THEN resetController(pid[h]) ELSE pid[h]]
    /\ ret' = "none"
    /\ twist_msg' = TwistStamped
    /\ invoked' = {}
    /\ fresh' = Written(RefFields)
    /\ UNCHANGED <<flags_, mode_vars, param_vars, speed_limits_, handshake>>

(***************************************************************************)
(* updateState(pose_msg, twist_msg)                                        *)
(***************************************************************************)
\* an updateState that, in HOVER, takes the measured position as the
\* reference to hold
updateStateHoldsInHover(position, orientation, linear) ==
    LET hover == control_mode_in_.control_mode = HOVER
    IN  /\ uav_state_' = [uav_state_ EXCEPT !.position = position, !.velocity = linear,
                                            !.yaw = [@ EXCEPT ![1] = getYawFromQuaternion(orientation)]]
        /\ flags_' = [flags_ EXCEPT !.state_received = TRUE,
                                     !.ref_received = IF hover THEN TRUE ELSE @]
        /\ control_ref_' = IF hover THEN [control_ref_ EXCEPT !.position = position]
                           ELSE control_ref_
        /\ ret' = "none"
        /\ twist_msg' = TwistStamped
        /\ invoked' = {}
        /\ handshake' = [handshake EXCEPT !.state = TRUE]
        /\ UNCHANGED <<mode_vars, param_vars, control_command_, speed_limits_, pid, fresh>>

updateState(position, orientation, linear) ==
    /\ uav_state_' = [uav_state_ EXCEPT !.position = position, !.velocity = linear,
                                        !.yaw = [@ EXCEPT ![1] = getYawFromQuaternion(orientation)]]
    /\ flags_' = [flags_ EXCEPT !.state_received = TRUE]
    /\ ret' = "none"
    /\ twist_msg' = TwistStamped
    /\ invoked' = {}
    /\ handshake' = [handshake EXCEPT !.state = TRUE]
    /\ UNCHANGED <<mode_vars, param_vars, control_ref_, control_command_, speed_limits_,
                   pid, fresh>>

(***************************************************************************)
(* updateReference: pose, twist and trajectory point                       *)
(***************************************************************************)
\* the payloads a control mode takes as its reference (the handshake of a mode)
AcceptsAsReference(kind, control_mode) ==
    CASE kind = "pose" -> control_mode \in {POSITION, SPEED_IN_A_PLANE}
      [] kind = "twist" -> control_mode \in {SPEED, SPEED_IN_A_PLANE}
      [] kind = "trajectory" -> control_mode = TRAJECTORY

NoteReference(kind) ==
    handshake' = IF AcceptsAsReference(kind, control_mode_in_.control_mode)
                 THEN [handshake EXCEPT !.ref = TRUE] ELSE handshake

\* an updateReference(pose) that takes the position in SPEED mode as well
updateReferencePoseInSpeed(position, orientation) ==
    LET takes_position == control_mode_in_.control_mode \in
                              {SPEED, POSITION, SPEED_IN_A_PLANE}
        takes_yaw == /\ control_mode_in_.control_mode \in {SPEED, POSITION, SPEED_IN_A_PLANE}
                     /\ control_mode_in_.yaw_mode = YAW_ANGLE
        ref1 == IF takes_position
                THEN [control_ref_ EXCEPT !.position = position] ELSE control_ref_
        ref2 == IF takes_yaw
                THEN [ref1 EXCEPT !.yaw = [@ EXCEPT ![1] = getYawFromQuaternion(orientation)]]
                ELSE ref1
    IN  /\ control_ref_' = ref2
        /\ flags_' = IF takes_position THEN [flags_ EXCEPT !.ref_received = TRUE] ELSE flags_
        /\ fresh' = Written((IF takes_position THEN {"position"} ELSE {})
                                 \cup (IF takes_yaw THEN {"yaw_angle"} ELSE {}))
        /\ ret' = "none"
        /\ twist_msg' = TwistStamped
        /\ invoked' = {}
        /\ NoteReference("pose")
        /\ UNCHANGED <<mode_vars, param_vars, uav_state_, control_command_, speed_limits_,
                       pid>>

updateReferencePose(position, orientation) ==
    LET takes_position == control_mode_in_.control_mode \in {POSITION, SPEED_IN_A_PLANE}
        takes_yaw == /\ control_mode_in_.control_mode \in {SPEED, POSITION, SPEED_IN_A_PLANE}
                     /\ control_mode_in_.yaw_mode = YAW_ANGLE
        ref1 == IF takes_position
                THEN [control_ref_ EXCEPT !.position = position] ELSE control_ref_
        ref2 == IF takes_yaw
                THEN [ref1 EXCEPT !.yaw = [@ EXCEPT ![1] = getYawFromQuaternion(orientation)]]
                ELSE ref1
    IN  /\ control_ref_' = ref2
        /\ flags_' = IF takes_position THEN [flags_ EXCEPT !.ref_received = TRUE] ELSE flags_
        /\ fresh' = Written((IF takes_position THEN {"position"} ELSE {})
                                 \cup (IF takes_yaw THEN {"yaw_angle"} ELSE {}))
        /\ ret' = "none"
        /\ twist_msg' = TwistStamped
        /\ invoked' = {}
        /\ NoteReference("pose")
        /\ UNCHANGED <<mode_vars, param_vars, uav_state_, control_command_, speed_limits_,
                       pid>>

\* the handles saturated by an updateReference(twist) that skips the
\* trajectory regulator
SaturatedHandlersNoTrajectory == {pid_3D_position_handler_, pid_3D_velocity_handler_}

\* the handles that take the speed limits as output saturation
SaturatedHandlers == {pid_3D_position_handler_, pid_3D_velocity_handler_,
                      pid_3D_trajectory_handler_}

\* an updateReference(twist) that takes the yaw rate in every yaw mode
updateReferenceTwistRateAlways(linear, angular_z) ==
    /\ ret' = "none"
    /\ twist_msg' = TwistStamped
    /\ invoked' = {}
    /\ NoteReference("twist")
    /\ UNCHANGED <<mode_vars, param_vars, uav_state_, control_command_>>
    /\ IF control_mode_in_.control_mode = POSITION
       THEN /\ speed_limits_' = linear
            /\ pid' = [h \in Handlers |->
                         IF h \in SaturatedHandlers
                         THEN PidSet(pid[h], "OutputSaturation", linear) ELSE pid[h]]
            /\ UNCHANGED <<control_ref_, flags_, fresh>>
       ELSE IF control_mode_in_.control_mode \notin {SPEED, SPEED_IN_A_PLANE}
       THEN UNCHANGED <<speed_limits_, pid, control_ref_, flags_, fresh>>
       ELSE LET takes_rate == TRUE
                ref1 == [control_ref_ EXCEPT !.velocity = linear]
            IN  /\ control_ref_' = IF takes_rate
                                   THEN [ref1 EXCEPT !.yaw = [@ EXCEPT ![2] = angular_z]]
                                   ELSE ref1
                /\ flags_' = [flags_ EXCEPT !.ref_received = TRUE]
                /\ fresh' = Written({"velocity"} \cup (IF takes_rate THEN {"yaw_rate"} ELSE {}))
                /\ UNCHANGED <<speed_limits_, pid>>

updateReferenceTwist(linear, angular_z) ==
    /\ ret' = "none"
    /\ twist_msg' = TwistStamped
    /\ invoked' = {}
    /\ NoteReference("twist")
    /\ UNCHANGED <<mode_vars, param_vars, uav_state_, control_command_>>
    /\ IF control_mode_in_.control_mode = POSITION
       THEN /\ speed_limits_' = linear
            /\ pid' = [h \in Handlers |->
                         IF h \in SaturatedHandlers
                         THEN PidSet(pid[h], "OutputSaturation", linear) ELSE pid[h]]
            /\ UNCHANGED <<control_ref_, flags_, fresh>>
       ELSE IF control_mode_in_.control_mode \notin {SPEED, SPEED_IN_A_PLANE}
       THEN UNCHANGED <<speed_limits_, pid, control_ref_, flags_, fresh>>
       ELSE LET takes_rate == control_mode_in_.yaw_mode = YAW_SPEED
                ref1 == [control_ref_ EXCEPT !.velocity = linear]
            IN  /\ control_ref_' = IF takes_rate
                                   THEN [ref1 EXCEPT !.yaw = [@ EXCEPT ![2] = angular_z]]
                                   ELSE ref1
                /\ flags_' = [flags_ EXCEPT !.ref_received = TRUE]
                /\ fresh' = Written({"velocity"} \cup (IF takes_rate THEN {"yaw_rate"} ELSE {}))
                /\ UNCHANGED <<speed_limits_, pid>>

\* an updateReference(trajectory point) that leaves the velocity reference as
\* it was
updateReferenceTrajectoryKeepsVelocity(positions, velocities, accelerations) ==
    /\ ret' = "none"
    /\ twist_msg' = TwistStamped
    /\ invoked' = {}
    /\ NoteReference("trajectory")
    /\ UNCHANGED <<mode_vars, param_vars, uav_state_, control_command_, speed_limits_,
                   pid>>
    /\ IF control_mode_in_.control_mode # TRAJECTORY
       THEN UNCHANGED <<control_ref_, flags_, fresh>>
       ELSE /\ control_ref_' =
                 [control_ref_ EXCEPT
                    !.position = <<positions[1], positions[2], positions[3]>>,
                    !.yaw = <<positions[4], velocities[4], accelerations[4]>>]
            /\ flags_' = [flags_ EXCEPT !.ref_received = TRUE]
            /\ fresh' = Written(RefFields)

\* positions, velocities and accelerations hold the four components the
\* handler reads (x, y, z, yaw)
updateReferenceTrajectory(positions, velocities, accelerations) ==
    /\ ret' = "none"
    /\ twist_msg' = TwistStamped
    /\ invoked' = {}
    /\ NoteReference("trajectory")
    /\ UNCHANGED <<mode_vars, param_vars, uav_state_, control_command_, speed_limits_,
                   pid>>
    /\ IF control_mode_in_.control_mode # TRAJECTORY
       THEN UNCHANGED <<control_ref_, flags_, fresh>>
       ELSE /\ control_ref_' =
                 [control_ref_ EXCEPT
                    !.position = <<positions[1], positions[2], positions[3]>>,
                    !.velocity = <<velocities[1], velocities[2], velocities[3]>>,
                    !.yaw = <<positions[4], velocities[4], accelerations[4]>>]
            /\ flags_' = [flags_ EXCEPT !.ref_received = TRUE]
            /\ fresh' = Written(RefFields)

(***************************************************************************)
(* setMode(in_mode, out_mode)                                              *)
(***************************************************************************)
\* control_mode_in_ after a setMode that stores in_mode as it comes
NextControlModeInAsGiven(in_mode) == in_mode

\* control_mode_in_ after setMode
NextControlModeIn(in_mode) ==
    IF in_mode.control_mode = HOVER
    THEN [control_mode_in_ EXCEPT !.control_mode = in_mode.control_mode,
                                  !.yaw_mode = YAW_ANGLE,
                                  !.reference_frame = LOCAL_ENU_FRAME]
    ELSE in_mode

\* flags_ after a setMode that clears ref_received only
NextModeFlagsKeepState(in_mode) ==
    IF in_mode.control_mode = HOVER
    THEN flags_
    ELSE [flags_ EXCEPT !.ref_received = FALSE]

\* flags_ after a setMode that clears state_received only
NextModeFlagsKeepReference(in_mode) ==
    IF in_mode.control_mode = HOVER
    THEN flags_
    ELSE [flags_ EXCEPT !.state_received = FALSE]

\* flags_ after a setMode that also forgets the parameters it has read
NextModeFlagsForgetParameters(in_mode) ==
    IF in_mode.control_mode = HOVER
    THEN flags_
    ELSE [f \in FlagNames |-> FALSE]

\* flags_ after setMode
NextModeFlags(in_mode) ==
    IF in_mode.control_mode = HOVER
    THEN flags_
    ELSE [flags_ EXCEPT !.ref_received = FALSE, !.state_received = FALSE]

\* the frame ids after a setMode whose speed modes move the output frame to the
\* body frame and leave the input twist frame in the world frame
NextFramesTwistInWorld(mode_in, mode_out) ==
    IF mode_in.control_mode \in {POSITION, TRAJECTORY}
    THEN <<enu_frame_id_, input_twist_frame_id_, enu_frame_id_>>
    ELSE IF mode_in.control_mode \in {SPEED, SPEED_IN_A_PLANE}
    THEN IF mode_out.reference_frame = BODY_FLU_FRAME
         THEN <<enu_frame_id_, enu_frame_id_, flu_frame_id_>>
         ELSE <<enu_frame_id_, enu_frame_id_, enu_frame_id_>>
    ELSE <<input_pose_frame_id_, input_twist_frame_id_, output_twist_frame_id_>>

\* <<input_pose_frame_id_, input_twist_frame_id_, output_twist_frame_id_>> after
\* setMode has stored the modes
NextFrames(mode_in, mode_out) ==
    IF mode_in.control_mode \in {POSITION, TRAJECTORY}
    THEN <<enu_frame_id_, input_twist_frame_id_, enu_frame_id_>>
    ELSE IF mode_in.control_mode \in {SPEED, SPEED_IN_A_PLANE}
    THEN IF mode_out.reference_frame = BODY_FLU_FRAME
         THEN <<enu_frame_id_, flu_frame_id_, flu_frame_id_>>
         ELSE <<enu_frame_id_, enu_frame_id_, enu_frame_id_>>
    ELSE <<input_pose_frame_id_, input_twist_frame_id_, output_twist_frame_id_>>

setMode(in_mode, out_mode) ==
    LET mode_in == NextControlModeIn(in_mode)
        frames == NextFrames(mode_in, out_mode)
        pair_changed == <<mode_in.control_mode, mode_in.yaw_mode>> #
                        <<control_mode_in_.control_mode, control_mode_in_.yaw_mode>>
    IN  /\ control_mode_in_' = mode_in
        /\ flags_' = NextModeFlags(in_mode)
        /\ control_mode_out_' = out_mode
        /\ input_pose_frame_id_' = frames[1]
        /\ input_twist_frame_id_' = frames[2]
        /\ output_twist_frame_id_' = frames[3]
        /\ ret' = "none"
        /\ twist_msg' = TwistStamped
        /\ invoked' = {}
        /\ fresh' = IF pair_changed /\ fresh # Untracked THEN {} ELSE fresh
        /\ handshake' = IF in_mode.control_mode = HOVER
                        THEN handshake
                        ELSE [switched |-> TRUE, state |-> FALSE, ref |-> FALSE]
        /\ UNCHANGED <<param_vars, uav_state_, control_ref_, control_command_,
                       speed_limits_, pid>>

getDesiredPoseFrameId == input_pose_frame_id_
getDesiredTwistFrameId == input_twist_frame_id_

(***************************************************************************)
(* Parameters: checkParamList, the per-handle setters, parametersCallback  *)
(***************************************************************************)
\* the list and the flag after checkParamList(param, _params_list, _all_params_read)
checkParamList(param, params_list, all_params_read) ==
    LET remaining == params_list \ {param}
    IN  [list |-> remaining,
         read |-> IF Cardinality(remaining) = 0 THEN TRUE ELSE all_params_read]

\* the setter updateControllerParameter calls for a leaf name, "" for none
Setter1D(parameter_name) ==
    CASE parameter_name = <<"reset_integral">> -> "ResetIntegralSaturationFlag"
      [] parameter_name = <<"antiwindup_cte">> -> "AntiWindup"
      [] parameter_name = <<"alpha">> -> "Alpha"
      [] parameter_name = <<"kp">> -> "Kp"
      [] parameter_name = <<"ki">> -> "Ki"
      [] parameter_name = <<"kd">> -> "Kd"
      [] OTHER -> ""

\* the setter updateController3DParameter calls for a leaf name, "" for none
Setter3D(parameter_name) ==
    CASE parameter_name = <<"reset_integral">> -> "ResetIntegralSaturationFlag"
      [] parameter_name = <<"antiwindup_cte">> -> "AntiWindup"
      [] parameter_name = <<"alpha">> -> "Alpha"
      [] parameter_name = <<"kp", "x">> -> "KpX"
      [] parameter_name = <<"kp", "y">> -> "KpY"
      [] parameter_name = <<"kp", "z">> -> "KpZ"
      [] parameter_name = <<"ki", "x">> -> "KiX"
      [] parameter_name = <<"ki", "y">> -> "KiY"
      [] parameter_name = <<"ki", "z">> -> "KiZ"
      [] parameter_name = <<"kd", "x">> -> "KdX"
      [] parameter_name = <<"kd", "y">> -> "KdY"
      [] parameter_name = <<"kd", "z">> -> "KdZ"
      [] OTHER -> ""

updateControllerParameter(pid_handler, parameter_name, value) ==
    IF Setter1D(parameter_name) = "" THEN pid_handler
    ELSE PidSetParameter(pid_handler, Setter1D(parameter_name), value)

updateController3DParameter(pid_handler, parameter_name, value) ==
    IF Setter3D(parameter_name) = "" THEN pid_handler
    ELSE PidSetParameter(pid_handler, Setter3D(parameter_name), value)

\* <<the 1-D handle, the 3-D handle>> after updateSpeedInAPlaneParameter
updateSpeedInAPlaneParameter(pid_1d_handler, pid_3d_handler, parameter_name, value) ==
    IF parameter_name \in {<<"reset_integral">>, <<"antiwindup_cte">>, <<"alpha">>}
    THEN <<PidSetParameter(pid_1d_handler, Setter1D(parameter_name), value),
           PidSetParameter(pid_3d_handler, Setter3D(parameter_name), value)>>
    ELSE IF Head(parameter_name) = "height" /\ Setter1D(Tail(parameter_name)) \in {"Kp", "Ki", "Kd"}
    THEN <<PidSetParameter(pid_1d_handler, Setter1D(Tail(parameter_name)), value), pid_3d_handler>>
    ELSE IF /\ Head(parameter_name) = "speed"
            /\ Setter3D(Tail(parameter_name)) \in {"KpX", "KpY", "KiX", "KiY", "KdX", "KdY"}
    THEN <<pid_1d_handler, PidSetParameter(pid_3d_handler, Setter3D(Tail(parameter_name)), value)>>
    ELSE <<pid_1d_handler, pid_3d_handler>>

\* the part of the plugin a parameter update can touch
ParamState == [flags |-> flags_, to_read |-> parameters_to_read_, pid |-> pid,
               use_bypass |-> use_bypass_, proportional_limitation |-> proportional_limitation_]

\* st after "if (!flag) checkParamList(param_name, list, flag)" for group g
CheckGroup(st, g, param_name) ==
    IF st.flags[g] THEN st
    ELSE LET c == checkParamList(param_name, st.to_read[g], st.flags[g])
         IN  [st EXCEPT !.to_read = [@ EXCEPT ![g] = c.list],
                        !.flags = [@ EXCEPT ![g] = c.read]]

\* one iteration of the loop of parametersCallback
ApplyParameter(st, param) ==
    LET param_name == param.name
        controller == ControllerOf(param_name)
        param_subname == SubnameOf(param_name)
    IN  IF param_name = <<"proportional_limitation">>
        THEN CheckGroup([st EXCEPT !.proportional_limitation = param.value.bool_value],
                        "plugin_parameters_read", param_name)
        ELSE IF param_name = <<"use_bypass">>
        THEN CheckGroup([st EXCEPT !.use_bypass = param.value.bool_value],
                        "plugin_parameters_read", param_name)
        ELSE IF controller = "position_control"
        THEN CheckGroup([st EXCEPT !.pid = [@ EXCEPT ![pid_3D_position_handler_] =
                             updateController3DParameter(@, param_subname, param.value)]],
                        "position_controller_parameters_read", param_name)
        ELSE IF controller = "velocity_control"
        THEN CheckGroup([st EXCEPT !.pid = [@ EXCEPT ![pid_3D_velocity_handler_] =
                             updateController3DParameter(@, param_subname, param.value)]],
                        "velocity_controller_parameters_read", param_name)
        ELSE IF controller = "speed_in_a_plane_control"
        THEN LET both == updateSpeedInAPlaneParameter(
                             st.pid[pid_1D_speed_in_a_plane_handler_],
                             st.pid[pid_3D_speed_in_a_plane_handler_],
                             param_subname, param.value)
             IN  CheckGroup([st EXCEPT !.pid = [@ EXCEPT
                                 ![pid_1D_speed_in_a_plane_handler_] = both[1],
                                 ![pid_3D_speed_in_a_plane_handler_] = both[2]]],
                            "speed_in_a_plane_controller_parameters_read", param_name)
        ELSE IF controller = "trajectory_control"
        THEN CheckGroup([st EXCEPT !.pid = [@ EXCEPT ![pid_3D_trajectory_handler_] =
                             updateController3DParameter(@, param_subname, param.value)]],
                        "trajectory_controller_parameters_read", param_name)
        ELSE IF controller = "yaw_control"
        THEN CheckGroup([st EXCEPT !.pid = [@ EXCEPT ![pid_yaw_handler_] =
                             updateControllerParameter(@, param_subname, param.value)]],
                        "yaw_controller_parameters_read", param_name)
        ELSE st

\* the loop of parametersCallback over the vector of parameters
RECURSIVE ApplyParameters(_, _)
ApplyParameters(st, parameters) ==
    IF parameters = <<>> THEN st
    ELSE ApplyParameters(ApplyParameter(st, Head(parameters)), Tail(parameters))

parametersCallback(parameters) ==
    LET st == ApplyParameters(ParamState, parameters)
    IN  /\ flags_' = st.flags
        /\ parameters_to_read_' = st.to_read
        /\ pid' = st.pid
        /\ use_bypass_' = st.use_bypass
        /\ proportional_limitation_' = st.proportional_limitation
        /\ observed' = observed \cup {parameters[i].name : i \in 1..Len(parameters)}
        /\ ret' = "none"
        /\ twist_msg' = TwistStamped
        /\ invoked' = {}
        /\ UNCHANGED <<mode_vars, uav_state_, control_ref_, control_command_, speed_limits_,
                       fresh, handshake>>

(***************************************************************************)
(* computeOutput(dt, pose, twist, thrust) and getOutput(twist)             *)
(***************************************************************************)
\* the gate without its check of ref_received
GateOpenNoReference ==
    /\ flags_.state_received
    /\ flags_.plugin_parameters_read
    /\ flags_.position_controller_parameters_read

\* the four checks computeOutput makes before it touches anything
GateOpen ==
    /\ flags_.state_received
    /\ flags_.plugin_parameters_read
    /\ flags_.position_controller_parameters_read
    /\ flags_.ref_received

\* a SPEED_IN_A_PLANE case whose vertical command, without bypass, is the plane
\* regulator's
SpeedInAPlaneCasePlaneZ(dt, cmd, p) ==
    LET c3 == computeControl3D(p[pid_3D_speed_in_a_plane_handler_], dt,
                               uav_state_.velocity, control_ref_.velocity)
        velocity == IF use_bypass_ THEN control_ref_.velocity ELSE c3.out
        c1 == computeControl1D(p[pid_1D_speed_in_a_plane_handler_], dt,
                               uav_state_.position[3], control_ref_.position[3])
    IN  [ok |-> TRUE,
         cmd |-> [cmd EXCEPT !.velocity = <<velocity[1], velocity[2], IF use_bypass_ THEN c1.out ELSE velocity[3]>>],
         pid |-> [p EXCEPT
                    ![pid_3D_speed_in_a_plane_handler_] =
                        IF use_bypass_ THEN @ ELSE c3.pid,
                    ![pid_1D_speed_in_a_plane_handler_] = c1.pid],
         invoked |-> {pid_1D_speed_in_a_plane_handler_} \cup
                     (IF use_bypass_ THEN {} ELSE {pid_3D_speed_in_a_plane_handler_})]

\* case SPEED_IN_A_PLANE of the switch on the control mode
SpeedInAPlaneCase(dt, cmd, p) ==
    LET c3 == computeControl3D(p[pid_3D_speed_in_a_plane_handler_], dt,
                               uav_state_.velocity, control_ref_.velocity)
        velocity == IF use_bypass_ THEN control_ref_.velocity ELSE c3.out
        c1 == computeControl1D(p[pid_1D_speed_in_a_plane_handler_], dt,
                               uav_state_.position[3], control_ref_.position[3])
    IN  [ok |-> TRUE,
         cmd |-> [cmd EXCEPT !.velocity = <<velocity[1], velocity[2], c1.out>>],
         pid |-> [p EXCEPT
                    ![pid_3D_speed_in_a_plane_handler_] =
                        IF use_bypass_ THEN @ ELSE c3.pid,
                    ![pid_1D_speed_in_a_plane_handler_] = c1.pid],
         invoked |-> {pid_1D_speed_in_a_plane_handler_} \cup
                     (IF use_bypass_ THEN {} ELSE {pid_3D_speed_in_a_plane_handler_})]

\* a HOVER case that holds the vehicle where it is measured to be
HoverCaseHoldsMeasured(dt, cmd, p) ==
    IF ~flags_.position_controller_parameters_read
    THEN [ok |-> FALSE, cmd |-> cmd, pid |-> p, invoked |-> {}]
    ELSE LET c == computeControl3D(p[pid_3D_position_handler_], dt,
                                   uav_state_.position, uav_state_.position)
         IN  [ok |-> TRUE, cmd |-> [cmd EXCEPT !.velocity = c.out],
              pid |-> [p EXCEPT ![pid_3D_position_handler_] = c.pid],
              invoked |-> {pid_3D_position_handler_}]

\* case HOVER of the switch on the control mode
HoverCase(dt, cmd, p) ==
    IF ~flags_.position_controller_parameters_read
    THEN [ok |-> FALSE, cmd |-> cmd, pid |-> p, invoked |-> {}]
    ELSE LET c == computeControl3D(p[pid_3D_position_handler_], dt,
                                   uav_state_.position, control_ref_.position)
         IN  [ok |-> TRUE, cmd |-> [cmd EXCEPT !.velocity = c.out],
              pid |-> [p EXCEPT ![pid_3D_position_handler_] = c.pid],
              invoked |-> {pid_3D_position_handler_}]

\* case POSITION of the switch on the control mode
PositionCase(dt, cmd, p) ==
    IF ~flags_.position_controller_parameters_read
    THEN [ok |-> FALSE, cmd |-> cmd, pid |-> p, invoked |-> {}]
    ELSE LET c == computeControl3D(p[pid_3D_position_handler_], dt,
                                   uav_state_.position, control_ref_.position)
         IN  [ok |-> TRUE, cmd |-> [cmd EXCEPT !.velocity = c.out],
              pid |-> [p EXCEPT ![pid_3D_position_handler_] = c.pid],
              invoked |-> {pid_3D_position_handler_}]

\* a SPEED case that rejects the cycle while the velocity parameters are unread
SpeedCaseStrict(dt, cmd, p) ==
    IF use_bypass_
    THEN [ok |-> TRUE, cmd |-> [cmd EXCEPT !.velocity = control_ref_.velocity],
          pid |-> p, invoked |-> {}]
    ELSE IF ~flags_.velocity_controller_parameters_read
    THEN [ok |-> FALSE, cmd |-> cmd, pid |-> p, invoked |-> {}]
    ELSE LET c == computeControl3D(p[pid_3D_velocity_handler_], dt,
                                   uav_state_.velocity, control_ref_.velocity)
         IN  [ok |-> TRUE, cmd |-> [cmd EXCEPT !.velocity = c.out],
              pid |-> [p EXCEPT ![pid_3D_velocity_handler_] = c.pid],
              invoked |-> {pid_3D_velocity_handler_}]

\* case SPEED of the switch on the control mode: the unread velocity
\* parameters are logged and the regulator runs all the same
SpeedCase(dt, cmd, p) ==
    IF use_bypass_
    THEN [ok |-> TRUE, cmd |-> [cmd EXCEPT !.velocity = control_ref_.velocity],
          pid |-> p, invoked |-> {}]
    ELSE LET c == computeControl3D(p[pid_3D_velocity_handler_], dt,
                                   uav_state_.velocity, control_ref_.velocity)
         IN  [ok |-> TRUE, cmd |-> [cmd EXCEPT !.velocity = c.out],
              pid |-> [p EXCEPT ![pid_3D_velocity_handler_] = c.pid],
              invoked |-> {pid_3D_velocity_handler_}]

\* a TRAJECTORY case that runs the regulator with its parameters unread
TrajectoryCaseLenient(dt, cmd, p) ==
    LET c == computeControlTrajectory(p[pid_3D_trajectory_handler_], dt,
                      uav_state_.position, control_ref_.position,
                      uav_state_.velocity, control_ref_.velocity)
    IN  [ok |-> TRUE, cmd |-> [cmd EXCEPT !.velocity = c.out],
         pid |-> [p EXCEPT ![pid_3D_trajectory_handler_] = c.pid],
         invoked |-> {pid_3D_trajectory_handler_}]

\* case TRAJECTORY of the switch on the control mode
TrajectoryCase(dt, cmd, p) ==
    IF ~flags_.trajectory_controller_parameters_read
    THEN [ok |-> FALSE, cmd |-> cmd, pid |-> p, invoked |-> {}]
    ELSE LET c == computeControlTrajectory(p[pid_3D_trajectory_handler_], dt,
                      uav_state_.position, control_ref_.position,
                      uav_state_.velocity, control_ref_.velocity)
         IN  [ok |-> TRUE, cmd |-> [cmd EXCEPT !.velocity = c.out],
              pid |-> [p EXCEPT ![pid_3D_trajectory_handler_] = c.pid],
              invoked |-> {pid_3D_trajectory_handler_}]

\* The switch on control_mode_in_.control_mode, entered with the command cmd
\* and the handles p: whether it ran to its break, the command, the handles
\* and the handles whose computeControl ran.
Translational(dt, cmd, p) ==
    LET mode == control_mode_in_.control_mode
    IN  IF mode = HOVER
        THEN HoverCase(dt, cmd, p)
        ELSE IF mode = POSITION
        THEN PositionCase(dt, cmd, p)
        ELSE IF mode = SPEED
        THEN SpeedCase(dt, cmd, p)
        ELSE IF mode = SPEED_IN_A_PLANE
        THEN SpeedInAPlaneCase(dt, cmd, p)
        ELSE IF mode = TRAJECTORY
        THEN TrajectoryCase(dt, cmd, p)
        ELSE [ok |-> FALSE, cmd |-> cmd, pid |-> p, invoked |-> {}]

\* a yaw switch whose YAW_SPEED case, too, rejects while the yaw parameters
\* are unread
YawBranchRateNeedsParameters(dt, t) ==
    LET yaw_mode == control_mode_in_.yaw_mode
    IN  IF yaw_mode \in {YAW_ANGLE, YAW_SPEED} /\ ~flags_.yaw_controller_parameters_read
        THEN [t EXCEPT !.ok = FALSE]
        ELSE IF yaw_mode = YAW_ANGLE
        THEN LET yaw_error == angleMinError(control_ref_.yaw[1], uav_state_.yaw[1])
                 c == computeControlError(t.pid[pid_yaw_handler_], dt, yaw_error)
             IN  [ok |-> TRUE, cmd |-> [t.cmd EXCEPT !.yaw_speed = c.out],
                  pid |-> [t.pid EXCEPT ![pid_yaw_handler_] = c.pid],
                  invoked |-> t.invoked \cup {pid_yaw_handler_}]
        ELSE IF yaw_mode = YAW_SPEED
        THEN [t EXCEPT !.cmd = [@ EXCEPT !.yaw_speed = control_ref_.yaw[2]]]
        ELSE [t EXCEPT !.ok = FALSE]

\* The switch on control_mode_in_.yaw_mode, entered with the result t of the
\* translational switch.
YawBranch(dt, t) ==
    LET yaw_mode == control_mode_in_.yaw_mode
    IN  IF yaw_mode = YAW_ANGLE
        THEN IF ~flags_.yaw_controller_parameters_read
             THEN [t EXCEPT !.ok = FALSE]
             ELSE LET yaw_error == angleMinError(control_ref_.yaw[1], uav_state_.yaw[1])
                      c == computeControlError(t.pid[pid_yaw_handler_], dt, yaw_error)
                  IN  [ok |-> TRUE, cmd |-> [t.cmd EXCEPT !.yaw_speed = c.out],
                       pid |-> [t.pid EXCEPT ![pid_yaw_handler_] = c.pid],
                       invoked |-> t.invoked \cup {pid_yaw_handler_}]
        ELSE IF yaw_mode = YAW_SPEED
        THEN [t EXCEPT !.cmd = [@ EXCEPT !.yaw_speed = control_ref_.yaw[2]]]
        ELSE [t EXCEPT !.ok = FALSE]

\* the caller's twist message after getOutput
getOutput(cmd) ==
    [frame_id |-> output_twist_frame_id_,
     linear |-> cmd.velocity,
     angular |-> <<0, 0, cmd.yaw_speed>>]

\* computeOutput after the gate: resetCommands(), then the two switches
Dispatch(dt) ==
    LET t == Translational(dt, resetCommands(control_command_), pid)
    IN  IF t.ok THEN YawBranch(dt, t) ELSE t

\* a computeOutput that fills in the caller's twist message whatever the two
\* switches returned
ReturnGetOutputAlways(r, twist) == getOutput(r.cmd)

\* the caller's twist message when computeOutput returns: getOutput(twist) is
\* its last statement, behind every return false
ReturnGetOutput(r, twist) == IF r.ok THEN getOutput(r.cmd) ELSE twist

computeOutput(dt) ==
    /\ UNCHANGED <<flags_, mode_vars, param_vars, uav_state_, control_ref_, speed_limits_,
                   fresh, handshake>>
    /\ IF ~GateOpen
       THEN /\ ret' = "rejected"
            /\ invoked' = {}
            /\ twist_msg' = TwistStamped
            /\ UNCHANGED <<control_command_, pid>>
       ELSE LET r == Dispatch(dt)
            IN  /\ control_command_' = r.cmd
                /\ pid' = r.pid
                /\ invoked' = r.invoked
                /\ ret' = IF r.ok THEN "ok" ELSE "rejected"
                /\ twist_msg' = ReturnGetOutput(r, TwistStamped)

(***************************************************************************)
(* What the environment delivers                                           *)
(***************************************************************************)
\* time steps
DtValues == {1}
\* the vectors with equal horizontal components over the scalars in S
Vectors(S) == {<<a, a, b>> : a \in S, b \in S}
\* the trajectory points (x, y, z, yaw) with equal components over S
Points(S) == {<<a, a, a, a>> : a \in S}
\* the control modes a caller can ask for: the five the plugin knows and one
\* it does not
ModesIn == [control_mode : {HOVER, POSITION, SPEED, SPEED_IN_A_PLANE, TRAJECTORY, ATTITUDE},
            yaw_mode : YawModes,
            reference_frame : {LOCAL_ENU_FRAME, BODY_FLU_FRAME}]
\* the output modes of a platform that takes speed commands
ModesOut == [control_mode : {SPEED}, yaw_mode : {YAW_SPEED},
             reference_frame : {UNDEFINED_FRAME, LOCAL_ENU_FRAME, BODY_FLU_FRAME}]
\* the values a parameter of a given name can carry
ValuesOf(name) ==
    IF name[Len(name)] \in {"proportional_limitation", "use_bypass", "reset_integral"}
    THEN {ParameterBool(b) : b \in BOOLEAN} ELSE {ParameterDouble(d) : d \in Val}
ParametersOf(names) ==
    UNION {{[name |-> n, value |-> v] : v \in ValuesOf(n)} : n \in names}
\* the non-empty vectors of at most MaxBatch parameters out of params
Batches(params) == UNION {[1..k -> params] : k \in 1..MaxBatch}

\* The operations of the plugin, called in any order with what the
\* environment e delivers.
NextOver(e) ==
    \/ \E parameters \in Batches(e.params) : parametersCallback(parameters)
    \/ reset
    \/ \E position \in e.state_positions, orientation \in e.orientations,
          linear \in e.state_velocities :
          updateState(position, orientation, linear)
    \/ \E position \in e.ref_positions, orientation \in e.orientations :
          updateReferencePose(position, orientation)
    \/ \E linear \in e.ref_velocities, angular_z \in e.rates :
          updateReferenceTwist(linear, angular_z)
    \/ \E positions \in e.points, velocities \in e.points, accelerations \in e.points :
          updateReferenceTrajectory(positions, velocities, accelerations)
    \/ \E in_mode \in e.modes_in, out_mode \in e.modes_out : setMode(in_mode, out_mode)
    \/ \E dt \in DtValues : computeOutput(dt)

\* flags_ with every parameter-readiness flag outside free set
ParamFlagsSet(free) == {f \in [FlagNames -> BOOLEAN] : \A g \in Groups \ free : f[g]}

(***************************************************************************)
(* Spec: every (control mode, yaw mode) pair against the gate.  The        *)
(* regulators that do not decide the gate are configured, bypass is on,    *)
(* the vehicle and the references rest at the origin.                      *)
(***************************************************************************)
Env ==
    [params |-> {[name |-> <<"proportional_limitation">>, value |-> ParameterBool(FALSE)]},
     state_positions |-> {Zero3}, state_velocities |-> {Zero3}, orientations |-> {0},
     ref_positions |-> {Zero3}, ref_velocities |-> {Zero3}, rates |-> {0},
     points |-> Points({0}),
     modes_in |-> {m \in ModesIn : m.reference_frame = BODY_FLU_FRAME},
     modes_out |-> {m \in ModesOut : m.reference_frame = BODY_FLU_FRAME}]
InitGate ==
    /\ Init
    /\ fresh = Untracked
    /\ use_bypass_ = TRUE
    /\ flags_ \in ParamFlagsSet({"plugin_parameters_read", "position_controller_parameters_read"})
Next == NextOver(Env)
Spec == InitGate /\ [][Next]_vars

(***************************************************************************)
(* SpecModes: every setMode call, on a plugin whose plugin parameters      *)
(* have not arrived, so that computeOutput rejects every cycle.            *)
(***************************************************************************)
EnvModes ==
    [params |-> {[name |-> <<"unknown_control", "kp">>, value |-> ParameterDouble(0)]},
     state_positions |-> Vectors({MaxVal}), state_velocities |-> {Zero3},
     orientations |-> {0},
     ref_positions |-> {Zero3}, ref_velocities |-> {Zero3}, rates |-> {0},
     points |-> Points({0}),
     modes_in |-> ModesIn,
     modes_out |-> ModesOut]
InitModes ==
    /\ Init
    /\ fresh = Untracked
    /\ use_bypass_ = TRUE
    /\ flags_ = [f \in FlagNames |-> f \in Groups \ {"plugin_parameters_read"}]
NextModes == NextOver(EnvModes)
SpecModes == InitModes /\ [][NextModes]_vars

(***************************************************************************)
(* SpecParams: updates of the regulators' parameters in any order, on a    *)
(* plugin whose flags all read false after construction.                   *)
(***************************************************************************)
ParamNames == {<<"position_control", "kp", "x">>,
               <<"position_control", "gain">>,
               <<"yaw_control", "kp">>,
               <<"speed_in_a_plane_control", "alpha">>,
               <<"unknown_control", "kp">>}
EnvParams ==
    [params |-> {[name |-> n, value |-> ParameterDouble(MaxVal)] : n \in ParamNames},
     state_positions |-> Vectors({MaxVal}), state_velocities |-> {Zero3},
     orientations |-> {0},
     ref_positions |-> {Zero3}, ref_velocities |-> {Zero3}, rates |-> {0},
     points |-> Points({0}),
     modes_in |-> {m \in ModesIn : /\ m.control_mode \in {POSITION, SPEED, TRAJECTORY}
                                   /\ m.yaw_mode = YAW_ANGLE
                                   /\ m.reference_frame = LOCAL_ENU_FRAME},
     modes_out |-> {m \in ModesOut : m.reference_frame = LOCAL_ENU_FRAME}]
InitParams ==
    /\ Init
    /\ fresh = Untracked
    /\ use_bypass_ = TRUE
    /\ flags_ = [f \in FlagNames |-> FALSE]
NextParams == NextOver(EnvParams)
SpecParams == InitParams /\ [][NextParams]_vars

(***************************************************************************)
(* SpecValues: POSITION, SPEED_IN_A_PLANE and TRAJECTORY, fully            *)
(* configured, with the vehicle and the references away from the origin    *)
(* and the writes of the reference fields followed.                        *)
(***************************************************************************)
EnvValues ==
    [params |-> {[name |-> <<"use_bypass">>, value |-> ParameterBool(TRUE)]},
     state_positions |-> Vectors({MaxVal}), state_velocities |-> {Zero3},
     orientations |-> {0},
     ref_positions |-> Vectors({MaxVal}), ref_velocities |-> Vectors({MaxVal}),
     rates |-> {MaxVal},
     points |-> Points({MaxVal}),
     modes_in |-> {m \in ModesIn :
                     /\ <<m.control_mode, m.yaw_mode>> \in
                            {<<POSITION, YAW_SPEED>>, <<SPEED_IN_A_PLANE, YAW_ANGLE>>,
                             <<TRAJECTORY, YAW_ANGLE>>}
                     /\ m.reference_frame = LOCAL_ENU_FRAME},
     modes_out |-> {m \in ModesOut : m.reference_frame = LOCAL_ENU_FRAME}]
InitValues ==
    /\ Init
    /\ fresh = RefFields
    /\ use_bypass_ = TRUE
    /\ flags_ \in ParamFlagsSet({})
NextValues == NextOver(EnvValues)
SpecValues == InitValues /\ [][NextValues]_vars

(***************************************************************************)
(* SpecBranches: the cases of computeOutput behind the gate.  SPEED and    *)
(* TRAJECTORY with every yaw mode, bypass switched on and off, the         *)
(* velocity, trajectory and yaw parameters read or not, references away    *)
(* from the vehicle state.                                                 *)
(***************************************************************************)
EnvBranches ==
    [params |-> ParametersOf({<<"use_bypass">>}),
     state_positions |-> {Zero3}, state_velocities |-> {Zero3}, orientations |-> {0},
     ref_positions |-> {Zero3}, ref_velocities |-> Vectors({MaxVal}), rates |-> {MaxVal},
     points |-> Points({MaxVal}),
     modes_in |-> {m \in ModesIn : /\ m.control_mode \in {SPEED, TRAJECTORY}
                                   /\ m.reference_frame = LOCAL_ENU_FRAME},
     modes_out |-> {m \in ModesOut : m.reference_frame = LOCAL_ENU_FRAME}]
InitBranches ==
    /\ Init
    /\ fresh = Untracked
    /\ use_bypass_ = TRUE
    /\ flags_ \in ParamFlagsSet({"velocity_controller_parameters_read",
                                 "trajectory_controller_parameters_read",
                                 "yaw_controller_parameters_read"})
    /\ ~flags_.state_received /\ ~flags_.ref_received
NextBranches == NextOver(EnvBranches)
SpecBranches == InitBranches /\ [][NextBranches]_vars

(***************************************************************************)
(* SpecRefs: the references in every control mode and yaw mode, with       *)
(* references away from the vehicle state, on a plugin whose plugin        *)
(* parameters have not arrived.                                            *)
(***************************************************************************)
EnvRefs ==
    [params |-> {[name |-> <<"unknown_control", "kp">>, value |-> ParameterDouble(0)]},
     state_positions |-> {Zero3}, state_velocities |-> {Zero3}, orientations |-> {1},
     ref_positions |-> Vectors({MaxVal}), ref_velocities |-> Vectors({MaxVal}),
     rates |-> {MaxVal},
     points |-> Points({MaxVal}),
     modes_in |-> {m \in ModesIn : m.reference_frame = LOCAL_ENU_FRAME},
     modes_out |-> {m \in ModesOut : m.reference_frame = LOCAL_ENU_FRAME}]
InitRefs ==
    /\ Init
    /\ fresh = Untracked
    /\ use_bypass_ = TRUE
    /\ flags_ = [f \in FlagNames |-> f \in Groups \ {"plugin_parameters_read"}]
NextRefs == NextOver(EnvRefs)
SpecRefs == InitRefs /\ [][NextRefs]_vars

(***************************************************************************)
(* SpecHover: HOVER, POSITION and TRAJECTORY with YAW_ANGLE on a fully     *)
(* configured plugin, references away from the vehicle state.              *)
(***************************************************************************)
EnvHover ==
    [params |-> {[name |-> <<"use_bypass">>, value |-> ParameterBool(TRUE)]},
     state_positions |-> {Zero3}, state_velocities |-> {Zero3}, orientations |-> {0, 1},
     ref_positions |-> Vectors({MaxVal}), ref_velocities |-> Vectors({MaxVal}),
     rates |-> {MaxVal},
     points |-> Points({MaxVal}),
     modes_in |-> {m \in ModesIn : /\ m.control_mode \in {HOVER, POSITION, TRAJECTORY}
                                   /\ m.yaw_mode = YAW_ANGLE
                                   /\ m.reference_frame = LOCAL_ENU_FRAME},
     modes_out |-> {m \in ModesOut : m.reference_frame = LOCAL_ENU_FRAME}]
InitHover ==
    /\ Init
    /\ fresh = Untracked
    /\ use_bypass_ = TRUE
    /\ flags_ = [f \in FlagNames |-> f \in Groups]
NextHover == NextOver(EnvHover)
SpecHover == InitHover /\ [][NextHover]_vars

(***************************************************************************)
(* SpecPlane: SPEED_IN_A_PLANE with either yaw mode, bypass switched on    *)
(* and off, on a fully configured plugin, references away from the vehicle *)
(* state.                                                                  *)
(***************************************************************************)
EnvPlane ==
    [params |-> ParametersOf({<<"use_bypass">>}),
     state_positions |-> {Zero3}, state_velocities |-> {Zero3}, orientations |-> {0},
     ref_positions |-> Vectors({MaxVal}), ref_velocities |-> Vectors({MaxVal}),
     rates |-> {MaxVal},
     points |-> Points({MaxVal}),
     modes_in |-> {m \in ModesIn :
                     /\ <<m.control_mode, m.yaw_mode>> \in
                            {<<SPEED_IN_A_PLANE, YAW_ANGLE>>, <<SPEED_IN_A_PLANE, YAW_SPEED>>,
                             <<TRAJECTORY, YAW_SPEED>>}
                     /\ m.reference_frame = LOCAL_ENU_FRAME},
     modes_out |-> {m \in ModesOut : m.reference_frame = LOCAL_ENU_FRAME}]
InitPlane ==
    /\ Init
    /\ fresh = Untracked
    /\ use_bypass_ = TRUE
    /\ flags_ = [f \in FlagNames |-> f \in Groups]
NextPlane == NextOver(EnvPlane)
SpecPlane == InitPlane /\ [][NextPlane]_vars

(***************************************************************************)
(* Steps of the operations, as the properties below see them               *)
(***************************************************************************)
\* a step of computeOutput: the only operation that leaves a return value
ComputeStep == ret' # "none"
\* a step of setMode(in_mode, out_mode); setMode stores out_mode in
\* control_mode_out_, so the step shows which out_mode it was called with
SetModeStep(in_mode) == setMode(in_mode, control_mode_out_')
\* the internal memory of every regulator handle
Memory(p) == [h \in Handlers |-> p[h].mem]
\* the four flags of the gate all true when computeOutput is called
AllGateFlags ==
    /\ flags_.state_received
    /\ flags_.plugin_parameters_read
    /\ flags_.position_controller_parameters_read
    /\ flags_.ref_received
\* the switch on the control mode reaches its break
TranslationalRuns ==
    \/ control_mode_in_.control_mode \in {HOVER, POSITION, SPEED, SPEED_IN_A_PLANE}
    \/ /\ control_mode_in_.control_mode = TRAJECTORY
       /\ flags_.trajectory_controller_parameters_read
\* the switch on the yaw mode reaches its break
YawRuns ==
    \/ control_mode_in_.yaw_mode = YAW_SPEED
    \/ /\ control_mode_in_.yaw_mode = YAW_ANGLE
       /\ flags_.yaw_controller_parameters_read

(***************************************************************************)
(* C1.  Every computeOutput call that returns not-ok leaves CommandOutput  *)
(* (velocity and yaw_speed) and the internal state of every regulator      *)
(* handle exactly as they were before the call.                            *)
(***************************************************************************)
C1_RejectedCycleChangesNothing ==
    [][(ComputeStep /\ ret' = "rejected")
         => (control_command_' = control_command_ /\ pid' = pid)]_vars

(***************************************************************************)
(* C2.  Whatever the active (control mode, yaw mode) pair, a computeOutput *)
(* call made while at least one of state_received, plugin_parameters_read, *)
(* position_controller_parameters_read, ref_received is false returns      *)
(* not-ok, invokes no regulator and changes no regulator state.            *)
(***************************************************************************)
C2_GateRejects ==
    [][(/\ ComputeStep
        /\ \/ ~flags_.state_received
           \/ ~flags_.plugin_parameters_read
           \/ ~flags_.position_controller_parameters_read
           \/ ~flags_.ref_received)
         => (ret' = "rejected" /\ invoked' = {} /\ pid' = pid)]_vars

\* a call rejected for the missing reference alone, by a plugin whose
\* position regulator holds memory from earlier cycles
C2_Witness ==
    /\ ret = "rejected"
    /\ flags_.state_received
    /\ flags_.plugin_parameters_read
    /\ flags_.position_controller_parameters_read
    /\ ~flags_.ref_received
    /\ control_mode_in_.control_mode = POSITION
    /\ pid[pid_3D_position_handler_].mem > 0

(***************************************************************************)
(* C4.  setMode with an input control mode other than HOVER leaves         *)
(* state_received and ref_received both false, whatever they were; setMode *)
(* with input control mode HOVER leaves both flags as they were.           *)
(***************************************************************************)
C4_SetModeFlags ==
    [][\A in_mode \in ModesIn :
          SetModeStep(in_mode) =>
             IF in_mode.control_mode # HOVER
             THEN ~flags_'.state_received /\ ~flags_'.ref_received
             ELSE /\ flags_'.state_received = flags_.state_received
                  /\ flags_'.ref_received = flags_.ref_received]_vars

\* HOVER entered after a completed handshake: both flags survived the switch
C4_Witness ==
    /\ control_mode_in_.control_mode = HOVER
    /\ handshake.switched /\ handshake.state /\ handshake.ref
    /\ flags_.state_received /\ flags_.ref_received

(***************************************************************************)
(* C5.  After a setMode to a mode other than HOVER, no computeOutput call  *)
(* returns ok until an updateState call and an updateReference call that   *)
(* the mode accepts as a reference have both been made after that setMode. *)
(***************************************************************************)
C5_FreshHandshake ==
    (ret = "ok" /\ handshake.switched) => (handshake.state /\ handshake.ref)

\* an accepted cycle after a mode switch and its handshake
C5_Witness ==
    /\ ret = "ok"
    /\ handshake.switched /\ handshake.state /\ handshake.ref
    /\ control_mode_in_.control_mode = SPEED

(***************************************************************************)
(* C9.  After setMode with input control mode POSITION or TRAJECTORY,      *)
(* whatever the prior state and the out_mode, getDesiredPoseFrameId(),     *)
(* getDesiredTwistFrameId() and the output twist frame id are all the      *)
(* world frame id.                                                         *)
(***************************************************************************)
C9_PositionTrajectoryWorldFrames ==
    [][\A in_mode \in ModesIn :
          (SetModeStep(in_mode) /\ in_mode.control_mode \in {POSITION, TRAJECTORY})
             => /\ getDesiredPoseFrameId' = enu_frame_id_
                /\ getDesiredTwistFrameId' = enu_frame_id_
                /\ output_twist_frame_id_' = enu_frame_id_]_vars

(***************************************************************************)
(* C10.  After setMode with input control mode HOVER, whatever yaw mode    *)
(* and reference frame in_mode carried, the active control mode is HOVER,  *)
(* the active yaw mode is YAW_ANGLE and the active reference frame is      *)
(* LOCAL_ENU_FRAME.                                                        *)
(***************************************************************************)
C10_HoverForcesYawAngleWorld ==
    [][\A in_mode \in ModesIn :
          (SetModeStep(in_mode) /\ in_mode.control_mode = HOVER)
             => /\ control_mode_in_'.control_mode = HOVER
                /\ control_mode_in_'.yaw_mode = YAW_ANGLE
                /\ control_mode_in_'.reference_frame = LOCAL_ENU_FRAME]_vars

\* HOVER is active after a mode that ran with another yaw mode and frame
C10_Witness ==
    /\ control_mode_in_.control_mode = HOVER
    /\ control_mode_in_.yaw_mode = YAW_ANGLE
    /\ control_mode_in_.reference_frame = LOCAL_ENU_FRAME
    /\ control_mode_out_.reference_frame = BODY_FLU_FRAME

(***************************************************************************)
(* C3.  For each parameter group, from initialization on and in every      *)
(* order of parameter updates, the readiness flag of the group is true if  *)
(* and only if every name of the group's expected parameter-name set has   *)
(* been observed at least once.                                            *)
(***************************************************************************)
C3_ReadyIffAllNamesObserved ==
    \A g \in Groups : flags_[g] <=> (ParametersList(g) \subseteq observed)

(***************************************************************************)
(* C6.  On every accepted computeOutput cycle, each reference field the    *)
(* selected regulator chain reads was written, by updateReference or by    *)
(* reset, after the setMode that last changed the active (control mode,    *)
(* yaw mode) pair.                                                         *)
(***************************************************************************)
\* the reference fields an accepted cycle reads in the active mode pair
FieldsRead ==
    (CASE control_mode_in_.control_mode \in {HOVER, POSITION} -> {"position"}
       [] control_mode_in_.control_mode = SPEED -> {"velocity"}
       [] control_mode_in_.control_mode = SPEED_IN_A_PLANE -> {"position", "velocity"}
       [] control_mode_in_.control_mode = TRAJECTORY -> {"position", "velocity"}
       [] OTHER -> {})
    \cup
    (CASE control_mode_in_.yaw_mode = YAW_ANGLE -> {"yaw_angle"}
       [] control_mode_in_.yaw_mode = YAW_SPEED -> {"yaw_rate"}
       [] OTHER -> {})

C6_NoStaleReference ==
    (ret = "ok" /\ fresh # Untracked) => (FieldsRead \subseteq fresh)

(***************************************************************************)
(* C7.  From every reachable state, reset() leaves VehicleState,           *)
(* ReferenceState and CommandOutput all zero and the parameter-readiness   *)
(* flags unchanged, and a second reset() right after changes nothing.      *)
(***************************************************************************)
\* a step of reset()
ResetStep == reset

C7_ResetIdempotent ==
    [][ResetStep =>
         /\ uav_state_' = UAV_state
         /\ control_ref_' = UAV_state
         /\ control_command_' = UAV_command
         /\ \A g \in Groups : flags_'[g] = flags_[g]
         /\ resetReferences(control_ref_', uav_state_') = control_ref_'
         /\ resetCommands(control_command_') = control_command_'
         /\ \A h \in ResetHandlers : resetController(pid'[h]) = pid'[h]]_vars

(***************************************************************************)
(* C8.  After reset(), the internal memory of every regulator handle is    *)
(* cleared: yaw, 3-D position, 3-D velocity, 3-D trajectory and both the   *)
(* 1-D and the 3-D speed-in-a-plane regulators.                            *)
(***************************************************************************)
C8_ResetClearsEveryRegulator ==
    [][ResetStep => \A h \in Handlers : pid'[h].mem = 0]_vars

(***************************************************************************)
(* C11.  Whenever the active control mode is HOVER, the frame id that an   *)
(* accepted computeOutput stamps on the output twist is the world frame    *)
(* id, for every history of earlier setMode calls.                         *)
(***************************************************************************)
C11_HoverOutputWorldFrame ==
    (ret = "ok" /\ control_mode_in_.control_mode = HOVER)
        => twist_msg.frame_id = enu_frame_id_

(***************************************************************************)
(* C13.  With all four gate flags true, if the active control mode is      *)
(* outside {HOVER, POSITION, SPEED, SPEED_IN_A_PLANE, TRAJECTORY} or the   *)
(* active yaw mode is outside {YAW_ANGLE, YAW_SPEED}, computeOutput        *)
(* returns not-ok and leaves CommandOutput unchanged.                      *)
(***************************************************************************)
C13_UnknownModeLeavesCommand ==
    [][(/\ ComputeStep
        /\ flags_.state_received
        /\ flags_.plugin_parameters_read
        /\ flags_.position_controller_parameters_read
        /\ flags_.ref_received
        /\ \/ control_mode_in_.control_mode \notin
                 {HOVER, POSITION, SPEED, SPEED_IN_A_PLANE, TRAJECTORY}
           \/ control_mode_in_.yaw_mode \notin {YAW_ANGLE, YAW_SPEED})
         => (ret' = "rejected" /\ control_command_' = control_command_)]_vars

(***************************************************************************)
(* C12.  After setMode with input control mode SPEED or SPEED_IN_A_PLANE,  *)
(* the input pose frame is the world frame, and the input twist frame and  *)
(* the output twist frame are equal: both the body frame when out_mode's   *)
(* reference frame is BODY_FLU_FRAME, both the world frame for every other *)
(* out_mode reference frame.                                               *)
(***************************************************************************)
C12_SpeedModesTwistFrames ==
    [][\A in_mode \in {m \in ModesIn : m.control_mode \in {SPEED, SPEED_IN_A_PLANE}} :
          SetModeStep(in_mode) =>
             /\ getDesiredPoseFrameId' = enu_frame_id_
             /\ getDesiredTwistFrameId' = output_twist_frame_id_'
             /\ output_twist_frame_id_' =
                    IF control_mode_out_'.reference_frame = BODY_FLU_FRAME
                    THEN flu_frame_id_ ELSE enu_frame_id_]_vars

\* SPEED_IN_A_PLANE entered with a body-frame out_mode
C12_Witness ==
    /\ control_mode_in_.control_mode = SPEED_IN_A_PLANE
    /\ control_mode_out_.reference_frame = BODY_FLU_FRAME
    /\ getDesiredPoseFrameId = generateTfName(Namespace, odom)
    /\ getDesiredTwistFrameId = generateTfName(Namespace, base_link)
    /\ output_twist_frame_id_ = generateTfName(Namespace, base_link)

(***************************************************************************)
(* C14.  Once a parameter-readiness flag (plugin, position, velocity,      *)
(* speed-in-a-plane, trajectory, yaw) is true, it remains true after every *)
(* sequence of parameter updates, setMode, updateState, updateReference,   *)
(* computeOutput and reset calls.                                          *)
(***************************************************************************)
C14_ReadinessMonotonic ==
    [][\A g \in Groups : flags_[g] => flags_'[g]]_vars

\* two groups ready, further updates of a ready group delivered, a mode
\* switch and a state update made
C14_Witness ==
    /\ flags_.position_controller_parameters_read
    /\ flags_.yaw_controller_parameters_read
    /\ {<<"position_control", "kp", "x">>, <<"position_control", "gain">>} \subseteq observed
    /\ control_mode_in_.control_mode = TRAJECTORY
    /\ flags_.state_received

(***************************************************************************)
(* C15.  In TRAJECTORY mode, computeOutput returns not-ok whenever the     *)
(* trajectory parameters are unread, even when state_received,             *)
(* ref_received and the plugin, position and yaw parameter flags are all   *)
(* true.                                                                   *)
(***************************************************************************)
C15_TrajectoryNeedsParameters ==
    [][(/\ ComputeStep
        /\ control_mode_in_.control_mode = TRAJECTORY
        /\ ~flags_.trajectory_controller_parameters_read)
         => ret' = "rejected"]_vars

\* a TRAJECTORY cycle rejected with every other flag true
C15_Witness ==
    /\ ret = "rejected"
    /\ control_mode_in_.control_mode = TRAJECTORY
    /\ control_mode_in_.yaw_mode = YAW_ANGLE
    /\ ~flags_.trajectory_controller_parameters_read
    /\ AllGateFlags
    /\ flags_.yaw_controller_parameters_read

(***************************************************************************)
(* C16.  When the gate and the translational case do not reject: with yaw  *)
(* mode YAW_ANGLE computeOutput returns ok if and only if the yaw          *)
(* parameters are read, and the yaw-rate command is the yaw regulator's    *)
(* output; with yaw mode YAW_SPEED it returns ok whether they are read or  *)
(* not, the yaw-rate command is the reference yaw rate and the yaw         *)
(* regulator is not invoked.                                               *)
(***************************************************************************)
C16_YawBranch ==
    [][(ComputeStep /\ AllGateFlags /\ TranslationalRuns) =>
         /\ control_mode_in_.yaw_mode = YAW_ANGLE =>
              /\ ret' = "ok" <=> flags_.yaw_controller_parameters_read
              /\ ret' = "ok" =>
                   /\ pid_yaw_handler_ \in invoked'
                   /\ \E dt \in DtValues :
                        control_command_'.yaw_speed =
                            computeControlError(pid[pid_yaw_handler_], dt,
                                angleMinError(control_ref_.yaw[1], uav_state_.yaw[1])).out
         /\ control_mode_in_.yaw_mode = YAW_SPEED =>
              /\ ret' = "ok"
              /\ control_command_'.yaw_speed = control_ref_.yaw[2]
              /\ pid_yaw_handler_ \notin invoked'
              /\ pid'[pid_yaw_handler_] = pid[pid_yaw_handler_]]_vars

\* an accepted YAW_SPEED cycle with the yaw parameters unread and a yaw-rate
\* reference other than zero
C16_Witness ==
    /\ ret = "ok"
    /\ control_mode_in_.yaw_mode = YAW_SPEED
    /\ ~flags_.yaw_controller_parameters_read
    /\ control_ref_.yaw[2] = MaxVal
    /\ control_command_.yaw_speed = MaxVal
    /\ twist_msg.angular[3] = MaxVal

(***************************************************************************)
(* C17.  In SPEED mode with bypass off, when all four gate flags are true  *)
(* and the yaw switch does not reject, computeOutput returns ok and the    *)
(* velocity command is the velocity regulator's output on (measured        *)
(* velocity, reference velocity), whether the velocity parameters are read *)
(* or not.                                                                 *)
(***************************************************************************)
C17_SpeedDegradesLeniently ==
    [][(/\ ComputeStep
        /\ AllGateFlags
        /\ control_mode_in_.control_mode = SPEED
        /\ ~use_bypass_
        /\ YawRuns)
         => /\ ret' = "ok"
            /\ pid_3D_velocity_handler_ \in invoked'
            /\ \E dt \in DtValues :
                 control_command_'.velocity =
                     computeControl3D(pid[pid_3D_velocity_handler_], dt,
                                      uav_state_.velocity, control_ref_.velocity).out]_vars

\* an accepted SPEED cycle without bypass and with the velocity parameters
\* unread
C17_Witness ==
    /\ ret = "ok"
    /\ control_mode_in_.control_mode = SPEED
    /\ ~use_bypass_
    /\ ~flags_.velocity_controller_parameters_read
    /\ pid_3D_velocity_handler_ \in invoked
    /\ control_command_.velocity # Zero3

(***************************************************************************)
(* C18.  updateReference(pose) writes the position reference and sets      *)
(* ref_received if and only if the active control mode is POSITION or      *)
(* SPEED_IN_A_PLANE; it writes the yaw-angle reference if and only if the  *)
(* control mode is SPEED, POSITION or SPEED_IN_A_PLANE and the yaw mode is *)
(* YAW_ANGLE; in every other case it changes no reference field and no     *)
(* flag.                                                                   *)
(***************************************************************************)
C18_PoseReference ==
    [][\A position \in EnvRefs.ref_positions, orientation \in EnvRefs.orientations :
          updateReferencePose(position, orientation) =>
             LET mode == control_mode_in_.control_mode
                 takes_position == mode \in {POSITION, SPEED_IN_A_PLANE}
                 takes_yaw == /\ mode \in {SPEED, POSITION, SPEED_IN_A_PLANE}
                              /\ control_mode_in_.yaw_mode = YAW_ANGLE
             IN  /\ control_ref_'.position =
                        IF takes_position THEN position ELSE control_ref_.position
                 /\ flags_' = IF takes_position
                              THEN [flags_ EXCEPT !.ref_received = TRUE] ELSE flags_
                 /\ control_ref_'.yaw[1] =
                        IF takes_yaw THEN getYawFromQuaternion(orientation)
                        ELSE control_ref_.yaw[1]
                 /\ control_ref_'.velocity = control_ref_.velocity
                 /\ control_ref_'.yaw[2] = control_ref_.yaw[2]
                 /\ control_ref_'.yaw[3] = control_ref_.yaw[3]
                 /\ mode \notin {SPEED, POSITION, SPEED_IN_A_PLANE} =>
                        (control_ref_' = control_ref_ /\ flags_' = flags_)]_vars

\* POSITION with YAW_SPEED after a pose: the position is taken and
\* ref_received set, the yaw angle is not taken
C18_Witness ==
    /\ control_mode_in_.control_mode = POSITION
    /\ control_mode_in_.yaw_mode = YAW_SPEED
    /\ flags_.ref_received
    /\ control_ref_.position \in EnvRefs.ref_positions
    /\ control_ref_.yaw[1] = 0
    /\ control_ref_.velocity = Zero3

(***************************************************************************)
(* C19.  In POSITION mode, updateReference(twist) stores the linear part   *)
(* as the speed-limit vector and sets it as output saturation on the       *)
(* position, velocity and trajectory regulators, and leaves ref_received,  *)
(* the velocity reference and the yaw-rate reference unchanged.            *)
(***************************************************************************)
C19_TwistInPositionIsSpeedLimit ==
    [][\A linear \in EnvRefs.ref_velocities, angular_z \in EnvRefs.rates :
          (updateReferenceTwist(linear, angular_z)
             /\ control_mode_in_.control_mode = POSITION) =>
             /\ speed_limits_' = linear
             /\ \A h \in {pid_3D_position_handler_, pid_3D_velocity_handler_,
                          pid_3D_trajectory_handler_} :
                   pid'[h].cfg.OutputSaturation = linear
             /\ flags_' = flags_
             /\ control_ref_' = control_ref_]_vars

\* POSITION after a twist and no pose: the limits are set, the handshake is
\* still open
C19_Witness ==
    /\ control_mode_in_.control_mode = POSITION
    /\ speed_limits_ \in EnvRefs.ref_velocities
    /\ pid[pid_3D_trajectory_handler_].cfg.OutputSaturation = speed_limits_
    /\ ~flags_.ref_received
    /\ control_ref_.velocity = Zero3

(***************************************************************************)
(* C20.  In SPEED and SPEED_IN_A_PLANE modes updateReference(twist) sets   *)
(* the velocity reference and ref_received, and sets the yaw-rate          *)
(* reference only when the yaw mode is YAW_SPEED; in every mode other than *)
(* POSITION, SPEED and SPEED_IN_A_PLANE it changes no reference field, no  *)
(* flag, no speed limit and no regulator setting.                          *)
(***************************************************************************)
C20_TwistReference ==
    [][\A linear \in EnvRefs.ref_velocities, angular_z \in EnvRefs.rates :
          updateReferenceTwist(linear, angular_z) =>
             LET mode == control_mode_in_.control_mode
             IN  /\ mode \in {SPEED, SPEED_IN_A_PLANE} =>
                      /\ control_ref_'.velocity = linear
                      /\ flags_'.ref_received
                      /\ control_ref_'.yaw[2] =
                             IF control_mode_in_.yaw_mode = YAW_SPEED
                             THEN angular_z ELSE control_ref_.yaw[2]
                 /\ mode \notin {POSITION, SPEED, SPEED_IN_A_PLANE} =>
                      /\ control_ref_' = control_ref_
                      /\ flags_' = flags_
                      /\ speed_limits_' = speed_limits_
                      /\ pid' = pid]_vars

\* SPEED_IN_A_PLANE with YAW_ANGLE after a twist: the velocity is taken, the
\* yaw rate is not
C20_Witness ==
    /\ control_mode_in_.control_mode = SPEED_IN_A_PLANE
    /\ control_mode_in_.yaw_mode = YAW_ANGLE
    /\ control_ref_.velocity \in EnvRefs.ref_velocities
    /\ control_ref_.yaw[2] = 0
    /\ flags_.ref_received
    /\ control_ref_.position = Zero3

(***************************************************************************)
(* C21.  updateReference(trajectory point) changes state only when the     *)
(* active control mode is TRAJECTORY: it then writes the position          *)
(* reference, the velocity reference and the whole yaw reference (angle,   *)
(* rate, acceleration) together and sets ref_received; in every other mode *)
(* it changes no reference field and no flag.                              *)
(***************************************************************************)
C21_TrajectoryReference ==
    [][\A positions \in EnvRefs.points, velocities \in EnvRefs.points,
          accelerations \in EnvRefs.points :
          updateReferenceTrajectory(positions, velocities, accelerations) =>
             IF control_mode_in_.control_mode = TRAJECTORY
             THEN /\ control_ref_'.position = <<positions[1], positions[2], positions[3]>>
                  /\ control_ref_'.velocity = <<velocities[1], velocities[2], velocities[3]>>
                  /\ control_ref_'.yaw = <<positions[4], velocities[4], accelerations[4]>>
                  /\ flags_' = [flags_ EXCEPT !.ref_received = TRUE]
             ELSE /\ control_ref_' = control_ref_
                  /\ flags_' = flags_]_vars

\* TRAJECTORY after a trajectory point: all three parts of the reference
\* taken, ref_received set
C21_Witness ==
    /\ control_mode_in_.control_mode = TRAJECTORY
    /\ flags_.ref_received
    /\ control_ref_.position = <<MaxVal, MaxVal, MaxVal>>
    /\ control_ref_.velocity = <<MaxVal, MaxVal, MaxVal>>
    /\ control_ref_.yaw = <<MaxVal, MaxVal, MaxVal>>

(***************************************************************************)
(* C22.  A parameter update whose name is not one of the recognized names  *)
(* (an unknown group prefix, or a known group prefix followed by an        *)
(* unrecognized leaf) changes no readiness flag, no outstanding-name set   *)
(* and no regulator setting, in every reachable state.                     *)
(***************************************************************************)
\* the names delivered that no group expects
UnrecognizedNames ==
    {n \in ParamNames : n \notin UNION {ParametersList(g) : g \in Groups}}

C22_UnknownNameIgnored ==
    [][\A parameters \in Batches({p \in EnvParams.params : p.name \in UnrecognizedNames}) :
          parametersCallback(parameters) =>
             /\ flags_' = flags_
             /\ parameters_to_read_' = parameters_to_read_
             /\ pid' = pid]_vars

(***************************************************************************)
(* C23.  Two copies of the controller with identical VehicleState,         *)
(* position reference, readiness flags and position-regulator state, one   *)
(* in HOVER and one in POSITION with the same yaw mode, produce the same   *)
(* computeOutput result (same ok value, same velocity command) and the     *)
(* same next position-regulator state.                                     *)
(***************************************************************************)
C23_HoverAsPosition ==
    [][(/\ ComputeStep
        /\ AllGateFlags
        /\ control_mode_in_.control_mode \in {HOVER, POSITION})
         => \E dt \in DtValues :
               LET cmd == resetCommands(control_command_)
                   twin == IF control_mode_in_.control_mode = HOVER
                           THEN PositionCase(dt, cmd, pid)
                           ELSE HoverCase(dt, cmd, pid)
               IN  /\ (ret' = "ok") = (twin.ok /\ YawRuns)
                   /\ control_command_'.velocity = twin.cmd.velocity
                   /\ pid'[pid_3D_position_handler_] =
                          twin.pid[pid_3D_position_handler_]]_vars

\* an accepted HOVER cycle on a position reference away from the vehicle, with
\* memory in the position regulator
C23_Witness ==
    /\ ret = "ok"
    /\ control_mode_in_.control_mode = HOVER
    /\ control_ref_.position # uav_state_.position
    /\ control_command_.velocity # Zero3
    /\ pid[pid_3D_position_handler_].mem = MaxMem

(***************************************************************************)
(* C24.  computeOutput writes the caller's output twist message (frame id, *)
(* linear x/y/z, angular x/y/z) only on calls that return ok, after both   *)
(* the translational branch and the yaw branch completed; on every call    *)
(* that returns not-ok the caller's twist message is left exactly as it    *)
(* was passed in.                                                          *)
(***************************************************************************)
C24_TwistWrittenOnOk ==
    [][ComputeStep =>
          IF ret' = "ok"
          THEN /\ twist_msg'.frame_id = output_twist_frame_id_
               /\ twist_msg'.linear = control_command_'.velocity
               /\ twist_msg'.angular = <<0, 0, control_command_'.yaw_speed>>
          ELSE twist_msg' = TwistStamped]_vars

\* an accepted cycle that handed a command other than rest to the caller
C24_Witness ==
    /\ ret = "ok"
    /\ twist_msg # TwistStamped
    /\ twist_msg.frame_id = output_twist_frame_id_
    /\ twist_msg.linear = control_command_.velocity
    /\ twist_msg.linear # Zero3

(***************************************************************************)
(* C25.  In SPEED_IN_A_PLANE mode on an accepted cycle, the Z component of *)
(* the velocity command is always the output of the 1-D altitude regulator *)
(* on (measured altitude, reference altitude), with bypass on as well as   *)
(* off; the X and Y components are the reference velocity's X and Y when   *)
(* bypass is on, and the plane-speed regulator's X and Y output when       *)
(* bypass is off.                                                          *)
(***************************************************************************)
C25_SpeedInAPlaneComposition ==
    [][(/\ ComputeStep
        /\ ret' = "ok"
        /\ control_mode_in_.control_mode = SPEED_IN_A_PLANE)
         => \E dt \in DtValues :
               LET altitude == computeControl1D(pid[pid_1D_speed_in_a_plane_handler_], dt,
                                                uav_state_.position[3],
                                                control_ref_.position[3])
                   plane == computeControl3D(pid[pid_3D_speed_in_a_plane_handler_], dt,
                                             uav_state_.velocity, control_ref_.velocity)
                   horizontal == IF use_bypass_ THEN control_ref_.velocity ELSE plane.out
               IN  /\ control_command_'.velocity[3] = altitude.out
                   /\ control_command_'.velocity[1] = horizontal[1]
                   /\ control_command_'.velocity[2] = horizontal[2]]_vars

\* an accepted SPEED_IN_A_PLANE cycle without bypass, both regulators run, whose
\* vertical command differs from the horizontal one
C25_Witness ==
    /\ ret = "ok"
    /\ control_mode_in_.control_mode = SPEED_IN_A_PLANE
    /\ ~use_bypass_
    /\ invoked \cap {pid_1D_speed_in_a_plane_handler_, pid_3D_speed_in_a_plane_handler_} =
           {pid_1D_speed_in_a_plane_handler_, pid_3D_speed_in_a_plane_handler_}
    /\ control_command_.velocity[3] # control_command_.velocity[1]

(***************************************************************************)
(* C26.  While the active control mode is HOVER, no updateReference        *)
(* overload (pose, twist, trajectory point), no updateState and no         *)
(* parameter update changes reference_received or any ReferenceState       *)
(* field; so if reference_received is false when HOVER becomes active,     *)
(* every computeOutput call is rejected until setMode selects a different  *)
(* mode.                                                                   *)
(***************************************************************************)
C26_HoverTakesNoReference ==
    [][control_mode_in_.control_mode = HOVER =>
          /\ (\/ \E position \in EnvHover.ref_positions, orientation \in EnvHover.orientations :
                    updateReferencePose(position, orientation)
              \/ \E linear \in EnvHover.ref_velocities, angular_z \in EnvHover.rates :
                    updateReferenceTwist(linear, angular_z)
              \/ \E positions \in EnvHover.points, velocities \in EnvHover.points,
                    accelerations \in EnvHover.points :
                    updateReferenceTrajectory(positions, velocities, accelerations)
              \/ \E position \in EnvHover.state_positions,
                    orientation \in EnvHover.orientations,
                    linear \in EnvHover.state_velocities :
                    updateState(position, orientation, linear)
              \/ \E parameters \in Batches(EnvHover.params) : parametersCallback(parameters))
                => /\ flags_'.ref_received = flags_.ref_received
                   /\ control_ref_' = control_ref_
          /\ (~flags_.ref_received /\ control_mode_in_'.control_mode = HOVER)
                => /\ ~flags_'.ref_received
                   /\ ComputeStep => ret' = "rejected"]_vars

\* HOVER without a reference, the state received with a yaw away from the
\* reference's, the position regulator never run: the cycle is rejected
C26_Witness ==
    /\ control_mode_in_.control_mode = HOVER
    /\ ~flags_.ref_received
    /\ flags_.state_received
    /\ uav_state_.yaw[1] # control_ref_.yaw[1]
    /\ ret = "rejected"
    /\ pid[pid_3D_position_handler_].mem = 0

\* computeOutput passes the gate and both switches
Accepting == AllGateFlags /\ TranslationalRuns /\ YawRuns

(***************************************************************************)
(* C27.  reset() leaves state_received, reference_received, the active     *)
(* (control-mode, yaw-mode) pair and the pose/twist/output frame ids       *)
(* unchanged: in a state where computeOutput was being accepted, a         *)
(* computeOutput call made right after reset(), with no updateState or     *)
(* updateReference in between, is still accepted.                          *)
(***************************************************************************)
C27_ResetKeepsAcceptance ==
    [][/\ ResetStep =>
             /\ flags_'.state_received = flags_.state_received
             /\ flags_'.ref_received = flags_.ref_received
             /\ control_mode_in_'.control_mode = control_mode_in_.control_mode
             /\ control_mode_in_'.yaw_mode = control_mode_in_.yaw_mode
             /\ input_pose_frame_id_' = input_pose_frame_id_
             /\ input_twist_frame_id_' = input_twist_frame_id_
             /\ output_twist_frame_id_' = output_twist_frame_id_
             /\ Accepting => Accepting'
       /\ ComputeStep => ((ret' = "ok") = Accepting)]_vars

\* a cycle accepted on the state reset() left: the vehicle state cleared, the
\* position reference where the vehicle was measured, no updateState since
C27_Witness ==
    /\ ret = "ok"
    /\ uav_state_ = UAV_state
    /\ control_ref_.position \in EnvValues.state_positions
    /\ control_ref_.velocity = Zero3
    /\ flags_.state_received /\ flags_.ref_received
====
